---- MODULE Spec2Model ----
(***************************************************************************)
(* Model of the corn-breeding simulator's App component (src/App.tsx):     *)
(* the React state hooks, the event handlers, and the asynchronous         *)
(* advanceGeneration with its two awaits.  The genetics engine             *)
(* (utils/geneticsEngine), the constants module and the advisory service   *)
(* (services/geminiService) are imported by App.tsx but are not part of    *)
(* the available sources; they are modelled from the specification, with   *)
(* the engine's random draws made explicit as a seed argument.             *)
(***************************************************************************)
EXTENDS Integers, Sequences, FiniteSets, TLC

\* ------------------------------------------------------------------ bounds
MaxGeneration == 3          \* no advancement starts at this generation
MaxSeed == 0                \* random outcomes of one engine call: 0..MaxSeed
MaxExtraTimers == 0         \* pending setTimeout callbacks beyond the first

\* --------------------------------------------------------------- constants
POPULATION_SIZE == 3        \* scaled down from the program's field size
INITIAL_ENV_VARIANCE == 10  \* environmental variance in tenths (1.0)

Seeds == 0..MaxSeed
SelectionTraits == {"yield", "resistance", "height", "optimum"}

\* Values of the selection-intensity slider, in percent (min 5, max 50).
SelectionIntensities == {20, 50}

\* Results the scenario service can resolve with (envImpact in tenths).
ScenarioResults ==
    { [description |-> "Mild Season", envImpact |-> 10],
      [description |-> "Severe Drought", envImpact |-> 30] }

\* Text the analysis service resolves with.
AnalysisTexts == {"analysis text"}

MsgInitial == "Initialize the field to begin."
MsgWelcome == "Welcome, Breeder! F0 population initialized."
MsgReset == "Simulation reset. New F0 population created with high genetic diversity."
MsgFallback == "Analysis unavailable. Continue with phenotypic selection."

NoPlant == [id |-> <<0, 0>>]     \* null

\* ------------------------------------------------------------ sequences
Range(s) == { s[i] : i \in DOMAIN s }

RECURSIVE SumSeq(_)
SumSeq(s) == IF s = <<>> THEN 0 ELSE Head(s) + SumSeq(Tail(s))

\* Array.prototype.filter(p => ids.has(p.id))
RECURSIVE FilterByIds(_, _)
FilterByIds(s, ids) ==
    IF s = <<>> THEN <<>>
    ELSE IF Head(s).id \in ids THEN <<Head(s)>> \o FilterByIds(Tail(s), ids)
         ELSE FilterByIds(Tail(s), ids)

\* Array.prototype.sort with comparator (a, b) => key(a) - key(b), on the
\* positions of an array whose i-th element has key key[i]: ascending and
\* stable.  InsertSorted puts x after every position whose key is <= its own.
RECURSIVE InsertSorted(_, _, _)
InsertSorted(x, s, key) ==
    IF s = <<>> THEN <<x>>
    ELSE IF key[Head(s)] <= key[x] THEN <<Head(s)>> \o InsertSorted(x, Tail(s), key)
         ELSE <<x>> \o s

RECURSIVE SortPositions(_, _)
SortPositions(n, key) ==
    IF n = 0 THEN <<>> ELSE InsertSorted(n, SortPositions(n - 1, key), key)

\* Array.prototype.slice(0, n)
Slice(s, n) == SubSeq(s, 1, IF n < Len(s) THEN n ELSE Len(s))

\* ------------------------------------------------------- genetics engine
\* The engine draws at random; the model makes the draw an argument, seed, and
\* keeps of each plant its identity and the trait values the draw gave it.
\* Genetic value of plant i for trait number t under a draw.
GeneticValue(seed, i, t) == (seed + i * t) % 3

\* Breeding value per trait: genotype only, no environmental term.
BreedingValue(seed, i) ==
    [yield      |-> GeneticValue(seed, i, 1),
     resistance |-> GeneticValue(seed, i, 2),
     height     |-> GeneticValue(seed, i, 3)]

\* Environmental deviation of plant i, trait number t: its spread scales with
\* the environmental variance (in tenths), and it is 0 at variance 0.
Deviation(envVar, seed, i, t) == (((seed + i + t) % 3) - 1) * (envVar \div 10)

Phenotype(envVar, seed, i) ==
    [yield      |-> BreedingValue(seed, i).yield      + Deviation(envVar, seed, i, 1),
     resistance |-> BreedingValue(seed, i).resistance + Deviation(envVar, seed, i, 2),
     height     |-> BreedingValue(seed, i).height     + Deviation(envVar, seed, i, 3)]

\* A plant: the id is stamped with the generation.
MakePlant(gen, i, envVar, seed) ==
    [id            |-> <<gen, i>>,
     breedingValue |-> BreedingValue(seed, i),
     phenotype     |-> Phenotype(envVar, seed, i)]

createInitialPopulation(envVar, seed) ==
    [i \in 1..POPULATION_SIZE |-> MakePlant(1, i, envVar, seed)]

\* N offspring of pairs of the parents, stamped generation + 1 and phenotyped
\* with envVar.  Requires Len(parents) >= 2 (see BreedRejects).
breedNextGeneration(parents, gen, envVar, seed) ==
    [i \in 1..POPULATION_SIZE |-> MakePlant(gen + 1, i, envVar, seed)]

\* The engine rejects a parent set of size < 2.
BreedRejects(parents) == Len(parents) < 2

calculateStats(pop, gen) ==
    [generation |-> gen,
     meanYield     |-> SumSeq([i \in DOMAIN pop |-> pop[i].phenotype.yield]) \div Len(pop),
     meanResistance |-> SumSeq([i \in DOMAIN pop |-> pop[i].phenotype.resistance]) \div Len(pop),
     meanHeight    |-> SumSeq([i \in DOMAIN pop |-> pop[i].phenotype.height]) \div Len(pop)]

\* ------------------------------------------------------------------ state
VARIABLES
    generation,               \* useState hooks of App
    population,
    history,
    selectedIds,
    selectionIntensity,       \* in percent
    envVariance,              \* in tenths
    genomicSelectionEnabled,
    analysisMsg,
    scenario,
    lastSelectedPlant,
    isProcessing,
    weather,
    showCrossInfo,
    mounted,                  \* the mount effects have run
    calls,                    \* advanceGeneration invocations suspended at an await
    timers,                   \* pending setTimeout(() => setShowCrossInfo(false))
    advanceOutcome            \* how the last finished advanceGeneration promise settled

vars == <<generation, population, history, selectedIds, selectionIntensity,
          envVariance, genomicSelectionEnabled, analysisMsg, scenario,
          lastSelectedPlant, isProcessing, weather, showCrossInfo,
          mounted, calls, timers, advanceOutcome>>

\* The state after construction when the constant INITIAL_ENV_VARIANCE has the
\* value initialEnvVariance.
InitWith(initialEnvVariance) ==
    /\ generation = 1
    /\ population = <<>>
    /\ history = <<>>
    /\ selectedIds = {}
    /\ selectionIntensity = 20
    /\ envVariance = initialEnvVariance
    /\ genomicSelectionEnabled = FALSE
    /\ analysisMsg = MsgInitial
    /\ scenario = "Normal Conditions"
    /\ lastSelectedPlant = NoPlant
    /\ isProcessing = FALSE
    /\ weather = "sunny"
    /\ showCrossInfo = FALSE
    /\ mounted = FALSE
    /\ calls = <<>>
    /\ timers = 0
    /\ advanceOutcome = "none"

Init == InitWith(INITIAL_ENV_VARIANCE)

\* --------------------------------------------------------------- effects
\* The weather effect's body.
WeatherFor(env) ==
    IF env < 15 THEN "sunny" ELSE IF env < 25 THEN "cloudy" ELSE "rainy"

\* The weather effect runs after a render in which envVariance changed; it is
\* flushed before the next event, so it is part of the step that changed it.
\* w is the weather the handler itself left.
WeatherEffect(oldEnv, newEnv, w) == IF newEnv # oldEnv THEN WeatherFor(newEnv) ELSE w

\* The two mount effects, in order: initialize, then the weather effect.
InitEffect ==
    /\ ~mounted
    /\ \E seed \in Seeds :
         LET initPop == createInitialPopulation(envVariance, seed)
             initialStats == calculateStats(initPop, 1)
         IN  /\ population' = initPop
             /\ history' = <<initialStats>>
    /\ analysisMsg' = MsgWelcome
    /\ weather' = WeatherFor(envVariance)
    /\ mounted' = TRUE
    /\ UNCHANGED <<generation, selectedIds, selectionIntensity, envVariance,
                   genomicSelectionEnabled, scenario, lastSelectedPlant, isProcessing,
                   showCrossInfo, calls, timers, advanceOutcome>>

\* Events and continuations are delivered once the mount effects have run.
Ready == mounted

\* -------------------------------------------------------------- selection
PlantIds(pop) == { pop[i].id : i \in DOMAIN pop }

\* Set toggle of handlePlantClick.
ToggleId(sel, id) == IF id \in sel THEN sel \ {id} ELSE sel \cup {id}

\* Scene3D renders one clickable plant per member of population.
handlePlantClick(id) ==
    /\ Ready
    /\ id \in PlantIds(population)
    /\ LET plant == CHOOSE p \in Range(population) : p.id = id
       IN  lastSelectedPlant' = plant
    /\ selectedIds' = ToggleId(selectedIds, id)
    /\ UNCHANGED <<generation, population, history, selectionIntensity, envVariance,
                   genomicSelectionEnabled, analysisMsg, scenario, isProcessing,
                   weather, showCrossInfo, mounted, calls, timers,
                   advanceOutcome>>

\* Math.ceil(POPULATION_SIZE * selectionIntensity), intensity in percent.
SelectionCount(intensity) == (POPULATION_SIZE * intensity + 99) \div 100

\* The value a plant is ranked by (the optimum index is scaled by 30:
\* 0.5 y + 0.3 r + 0.2 (h / 3)).
TraitValue(p, trait, genomic) ==
    LET v == IF genomic THEN p.breedingValue ELSE p.phenotype
    IN  CASE trait = "optimum" -> 15 * v.yield + 9 * v.resistance + 2 * v.height
          [] trait = "height" -> v.height
          [] trait = "yield" -> v.yield
          [] trait = "resistance" -> v.resistance

\* Sort key: height ascending, everything else descending.
SortKeyAllDescending(p, trait, genomic) == 0 - TraitValue(p, trait, genomic)
SortKey(p, trait, genomic) ==
    IF trait = "height" THEN TraitValue(p, trait, genomic)
    ELSE 0 - TraitValue(p, trait, genomic)

TopIds(pop, trait, genomic, count) ==
    LET key == [i \in DOMAIN pop |-> SortKey(pop[i], trait, genomic)]
        sorted == SortPositions(Len(pop), key)
        top == Slice(sorted, count)
    IN  { pop[top[j]].id : j \in DOMAIN top }

autoSelectByTrait(trait) ==
    /\ Ready
    /\ selectedIds' = TopIds(population, trait, genomicSelectionEnabled,
                             SelectionCount(selectionIntensity))
    /\ UNCHANGED <<generation, population, history, selectionIntensity, envVariance,
                   genomicSelectionEnabled, analysisMsg, scenario, lastSelectedPlant,
                   isProcessing, weather, showCrossInfo, mounted, calls, timers, advanceOutcome>>

clearSelection ==
    /\ Ready
    /\ selectedIds' = {}
    /\ lastSelectedPlant' = NoPlant
    /\ UNCHANGED <<generation, population, history, selectionIntensity, envVariance,
                   genomicSelectionEnabled, analysisMsg, scenario, isProcessing,
                   weather, showCrossInfo, mounted, calls, timers,
                   advanceOutcome>>

setSelectionIntensity(v) ==
    /\ Ready
    /\ selectionIntensity' = v
    /\ UNCHANGED <<generation, population, history, selectedIds, envVariance,
                   genomicSelectionEnabled, analysisMsg, scenario, lastSelectedPlant,
                   isProcessing, weather, showCrossInfo, mounted, calls, timers, advanceOutcome>>

toggleGenomicSelection ==
    /\ Ready
    /\ genomicSelectionEnabled' = ~genomicSelectionEnabled
    /\ UNCHANGED <<generation, population, history, selectedIds, selectionIntensity,
                   envVariance, analysisMsg, scenario, lastSelectedPlant,
                   isProcessing, weather, showCrossInfo, mounted, calls, timers, advanceOutcome>>

\* ------------------------------------------------------ advanceGeneration
RemoveAt(s, k) == SubSeq(s, 1, k - 1) \o SubSeq(s, k + 1, Len(s))

\* The handler's own guard.
TooFewParentsOffByOne(sel) == Cardinality(sel) < 1
TooFewParents(sel) == Cardinality(sel) < 2

\* The Breed button's disabled attribute.
BreedDisabledIgnoresProcessing(processing, sel) == Cardinality(sel) < 2
BreedDisabled(processing, sel) == processing \/ Cardinality(sel) < 2

\* The handler up to its first await: the closure keeps the parents filtered
\* from the population of this render, and this render's generation.
AdvanceBegin ==
    /\ isProcessing' = TRUE
    /\ showCrossInfo' = TRUE
    /\ calls' = Append(calls, [stage |-> "scenario",
                               parents |-> FilterByIds(population, selectedIds),
                               generation |-> generation])
    /\ UNCHANGED <<generation, population, history, selectedIds, selectionIntensity,
                   envVariance, genomicSelectionEnabled, analysisMsg, scenario,
                   lastSelectedPlant, weather, mounted, timers,
                   advanceOutcome>>

\* alert(...); return: the dialog blocks the page until it is dismissed, then
\* the handler returns without having called a setter.
AdvanceAlert == UNCHANGED vars

advanceGeneration ==
    IF TooFewParents(selectedIds) THEN AdvanceAlert ELSE AdvanceBegin

\* A click on the Breed button, which is inert while disabled.
BreedClick ==
    /\ Ready
    /\ ~BreedDisabled(isProcessing, selectedIds)
    /\ generation < MaxGeneration
    /\ advanceGeneration

\* advanceGeneration invoked with fewer than 2 selected ids.
BreedAttemptTooFew ==
    /\ Ready
    /\ Cardinality(selectedIds) < 2
    /\ advanceGeneration

\* The generation number the new statistics are tagged with: generation + 1,
\* with the generation of the render that started the call.
StatsGenerationStale(gen) == gen
StatsGeneration(gen) == gen + 1

\* setHistory(prev => [...prev, stats])
AppendStatsPrepend(prev, stats) == <<stats>> \o prev
AppendStats(prev, stats) == Append(prev, stats)

\* The state updates after breeding, applied to the state of the moment.
CommitGenerationKeepSelection(nextGen, stats, newEnvVar) ==
    /\ population' = nextGen
    /\ history' = AppendStats(history, stats)
    /\ generation' = generation + 1
    /\ envVariance' = newEnvVar
    /\ selectedIds' = selectedIds
    /\ lastSelectedPlant' = NoPlant
    /\ weather' = WeatherEffect(envVariance, newEnvVar, weather)
CommitGenerationAccumulates(nextGen, stats, newEnvVar) ==
    /\ population' = population \o nextGen
    /\ history' = AppendStats(history, stats)
    /\ generation' = generation + 1
    /\ envVariance' = newEnvVar
    /\ selectedIds' = {}
    /\ lastSelectedPlant' = NoPlant
    /\ weather' = WeatherEffect(envVariance, newEnvVar, weather)
CommitGenerationStaleVariance(nextGen, stats, newEnvVar) ==
    /\ population' = nextGen
    /\ history' = AppendStats(history, stats)
    /\ generation' = generation + 1
    /\ envVariance' = envVariance
    /\ selectedIds' = {}
    /\ lastSelectedPlant' = NoPlant
    /\ weather' = weather
CommitGeneration(nextGen, stats, newEnvVar) ==
    /\ population' = nextGen
    /\ history' = AppendStats(history, stats)
    /\ generation' = generation + 1
    /\ envVariance' = newEnvVar
    /\ selectedIds' = {}
    /\ lastSelectedPlant' = NoPlant
    /\ weather' = WeatherEffect(envVariance, newEnvVar, weather)

\* catch (e) { ... } finally { ... } of call k: the promise is fulfilled.
CatchWithoutFinally(k) ==
    /\ analysisMsg' = MsgFallback
    /\ isProcessing' = isProcessing
    /\ calls' = RemoveAt(calls, k)
    /\ advanceOutcome' = "fulfilled"
CatchRethrows(k) ==
    /\ isProcessing' = FALSE
    /\ calls' = RemoveAt(calls, k)
    /\ advanceOutcome' = "rejected"
    /\ UNCHANGED analysisMsg
CatchFinally(k) ==
    /\ analysisMsg' = MsgFallback
    /\ isProcessing' = FALSE
    /\ calls' = RemoveAt(calls, k)
    /\ advanceOutcome' = "fulfilled"

\* generateScenario resolves with r: the continuation up to the second await.
\* An engine rejection (fewer than 2 parents) is caught like any other error.
ScenarioResolved(k, r, seed) ==
    /\ Ready
    /\ k \in DOMAIN calls
    /\ calls[k].stage = "scenario"
    /\ scenario' = r.description
    /\ IF BreedRejects(calls[k].parents)
       THEN /\ CatchFinally(k)
            /\ UNCHANGED <<generation, population, history, selectedIds, envVariance,
                           lastSelectedPlant, weather>>
       ELSE LET nextGen == breedNextGeneration(calls[k].parents, calls[k].generation,
                                               r.envImpact, seed)
                stats == calculateStats(nextGen, StatsGeneration(calls[k].generation))
            IN  /\ CommitGeneration(nextGen, stats, r.envImpact)
                /\ calls' = [calls EXCEPT ![k] = [stage |-> "analysis", parents |-> <<>>,
                                                  generation |-> calls[k].generation]]
                /\ UNCHANGED <<analysisMsg, isProcessing, advanceOutcome>>
    /\ UNCHANGED <<selectionIntensity, genomicSelectionEnabled, showCrossInfo, mounted,
                   timers>>

\* generateScenario rejects.
ScenarioRejected(k) ==
    /\ Ready
    /\ k \in DOMAIN calls
    /\ calls[k].stage = "scenario"
    /\ CatchFinally(k)
    /\ UNCHANGED <<generation, population, history, selectedIds, selectionIntensity,
                   envVariance, genomicSelectionEnabled, scenario, lastSelectedPlant,
                   weather, showCrossInfo, mounted, timers>>

\* getGeneticistAnalysis resolves with text.
AnalysisResolved(k, text) ==
    /\ Ready
    /\ k \in DOMAIN calls
    /\ calls[k].stage = "analysis"
    /\ timers <= MaxExtraTimers
    /\ analysisMsg' = text
    /\ timers' = timers + 1
    /\ isProcessing' = FALSE
    /\ calls' = RemoveAt(calls, k)
    /\ advanceOutcome' = "fulfilled"
    /\ UNCHANGED <<generation, population, history, selectedIds, selectionIntensity,
                   envVariance, genomicSelectionEnabled, scenario, lastSelectedPlant,
                   weather, showCrossInfo, mounted>>

\* getGeneticistAnalysis rejects.
AnalysisRejectedRollsBack(k) ==
    /\ Ready
    /\ k \in DOMAIN calls
    /\ calls[k].stage = "analysis"
    /\ CatchFinally(k)
    /\ history' = SubSeq(history, 1, Len(history) - 1)
    /\ generation' = calls[k].generation
    /\ UNCHANGED <<population, selectedIds, selectionIntensity,
                   envVariance, genomicSelectionEnabled, scenario, lastSelectedPlant,
                   weather, showCrossInfo, mounted, timers>>
AnalysisRejected(k) ==
    /\ Ready
    /\ k \in DOMAIN calls
    /\ calls[k].stage = "analysis"
    /\ CatchFinally(k)
    /\ UNCHANGED <<generation, population, history, selectedIds, selectionIntensity,
                   envVariance, genomicSelectionEnabled, scenario, lastSelectedPlant,
                   weather, showCrossInfo, mounted, timers>>

\* The 2000 ms timeout fires.
TimerFires ==
    /\ Ready
    /\ timers > 0
    /\ timers' = timers - 1
    /\ showCrossInfo' = FALSE
    /\ UNCHANGED <<generation, population, history, selectedIds, selectionIntensity,
                   envVariance, genomicSelectionEnabled, analysisMsg, scenario,
                   lastSelectedPlant, isProcessing, weather, mounted, calls,
                   advanceOutcome>>

\* The Reset button handler with one setter left out.
resetSimulationStaleVariance(initialEnvVariance) ==
    /\ Ready
    /\ \E seed \in Seeds :
         LET initPop == createInitialPopulation(initialEnvVariance, seed)
             initialStats == calculateStats(initPop, 1)
         IN  /\ population' = initPop
             /\ history' = <<initialStats>>
    /\ generation' = 1
    /\ envVariance' = envVariance
    /\ selectedIds' = {}
    /\ lastSelectedPlant' = NoPlant
    /\ scenario' = "Normal Conditions"
    /\ analysisMsg' = MsgReset
    /\ weather' = "sunny"
    /\ UNCHANGED <<selectionIntensity, genomicSelectionEnabled, isProcessing,
                   showCrossInfo, mounted, calls, timers, advanceOutcome>>
resetSimulationKeepsViewer(initialEnvVariance) ==
    /\ Ready
    /\ \E seed \in Seeds :
         LET initPop == createInitialPopulation(initialEnvVariance, seed)
             initialStats == calculateStats(initPop, 1)
         IN  /\ population' = initPop
             /\ history' = <<initialStats>>
    /\ generation' = 1
    /\ envVariance' = initialEnvVariance
    /\ selectedIds' = {}
    /\ lastSelectedPlant' = lastSelectedPlant
    /\ scenario' = "Normal Conditions"
    /\ analysisMsg' = MsgReset
    /\ weather' = WeatherEffect(envVariance, initialEnvVariance, "sunny")
    /\ UNCHANGED <<selectionIntensity, genomicSelectionEnabled, isProcessing,
                   showCrossInfo, mounted, calls, timers, advanceOutcome>>

\* The Reset button (never disabled), when the constant INITIAL_ENV_VARIANCE has
\* the value initialEnvVariance.
resetSimulationWith(initialEnvVariance) ==
    /\ Ready
    /\ \E seed \in Seeds :
         LET initPop == createInitialPopulation(initialEnvVariance, seed)
             initialStats == calculateStats(initPop, 1)
         IN  /\ population' = initPop
             /\ history' = <<initialStats>>
    /\ generation' = 1
    /\ envVariance' = initialEnvVariance
    /\ selectedIds' = {}
    /\ lastSelectedPlant' = NoPlant
    /\ scenario' = "Normal Conditions"
    /\ analysisMsg' = MsgReset
    /\ weather' = WeatherEffect(envVariance, initialEnvVariance, "sunny")
    /\ UNCHANGED <<selectionIntensity, genomicSelectionEnabled, isProcessing,
                   showCrossInfo, mounted, calls, timers, advanceOutcome>>

resetSimulation == resetSimulationWith(INITIAL_ENV_VARIANCE)

\* ------------------------------------------------------------ specification
\* Every step but the reset.
Events ==
    \/ InitEffect
    \/ \E id \in PlantIds(population) : handlePlantClick(id)
    \/ \E trait \in SelectionTraits : autoSelectByTrait(trait)
    \/ clearSelection
    \/ \E v \in SelectionIntensities : setSelectionIntensity(v)
    \/ toggleGenomicSelection
    \/ BreedClick
    \/ BreedAttemptTooFew
    \/ \E k \in DOMAIN calls, r \in ScenarioResults, seed \in Seeds : ScenarioResolved(k, r, seed)
    \/ \E k \in DOMAIN calls : ScenarioRejected(k)
    \/ \E k \in DOMAIN calls, text \in AnalysisTexts : AnalysisResolved(k, text)
    \/ \E k \in DOMAIN calls : AnalysisRejected(k)
    \/ TimerFires

Next ==
    \/ Events
    \/ resetSimulation

Spec == Init /\ [][Next]_vars

\* ------------------------------------------------------------------ claims
ScenarioFails == \E k \in DOMAIN calls : ScenarioRejected(k)
AnalysisFails == \E k \in DOMAIN calls : AnalysisRejected(k)
AnalysisReturns == \E k \in DOMAIN calls, text \in AnalysisTexts : AnalysisResolved(k, text)
Extends(h1, h2) == Len(h2) = Len(h1) + 1 /\ SubSeq(h2, 1, Len(h1)) = h1

\* C1: when generateScenario fails, the advancement still proceeds: one stats
\* entry is appended to history, the generation counter is incremented and the
\* population is a newly bred one.
C1_ScenarioFailureStillAdvances ==
    [][ScenarioFails =>
          /\ Len(history') = Len(history) + 1
          /\ generation' = generation + 1
          /\ population' # population]_vars

\* C2: when either service call fails, advanceGeneration's promise is fulfilled
\* (no error escapes) and analysisMsg is the static fallback text.
C2_FailureAbsorbed ==
    [][(ScenarioFails \/ AnalysisFails) =>
          /\ analysisMsg' = MsgFallback
          /\ advanceOutcome' = "fulfilled"
          /\ ~isProcessing']_vars

C2_Witness ==
    /\ analysisMsg = MsgFallback
    /\ advanceOutcome = "fulfilled"
    /\ calls = <<>>
    /\ generation = 1

\* C3: the completion of the analysis call, whether it returns a text or fails,
\* changes none of population, history, generation, envVariance and selectedIds:
\* whatever the analysis does, the simulation state is the one committed before
\* the call.
C3_AnalysisHasNoSimulationEffect ==
    [][(AnalysisFails \/ AnalysisReturns) =>
          UNCHANGED <<population, history, generation, envVariance, selectedIds>>]_vars

C3_Witness ==
    /\ analysisMsg \in AnalysisTexts
    /\ calls = <<>>
    /\ generation = 2
    /\ Len(history) = 2

\* C4 as stated: every step leaves history unchanged or extends it by exactly
\* one entry at the end.
C4_HistoryAppendOnly ==
    [][history' = history \/ Extends(history, history')]_vars

\* C4 amended: every step other than resetSimulation leaves history unchanged or
\* extends it by exactly one entry at the end; resetSimulation replaces it by a
\* single entry for generation 1.
C4_HistoryAppendOnlyExceptReset ==
    [][\/ history' = history
       \/ Extends(history, history')
       \/ resetSimulation /\ Len(history') = 1 /\ history'[1].generation = 1]_vars

C4_Witness == Len(history) = 2 /\ analysisMsg = MsgReset

\* C5: after initialization the i-th history entry carries generation number i.
C5_HistoryGenerationOrder ==
    mounted => \A i \in DOMAIN history : history[i].generation = i

\* C6: while an advanceGeneration call is in progress (isProcessing true before
\* and after the step), only that call's own continuation writes history,
\* population or the generation counter.
C6_SingleWriter ==
    [][(isProcessing /\ isProcessing') =>
          \/ UNCHANGED <<history, population, generation>>
          \/ \E k \in DOMAIN calls, r \in ScenarioResults, seed \in Seeds :
                ScenarioResolved(k, r, seed)]_vars

\* C7: at most one advanceGeneration call is in flight.
C7_NoOverlap == Len(calls) <= 1

C7_Witness ==
    /\ Len(calls) = 1
    /\ isProcessing
    /\ Cardinality(selectedIds) >= 2

\* C8: from a state with fewer than 2 selected ids no step begins an
\* advancement (no call is started, isProcessing and showCrossInfo are not
\* set), and the rejected attempt leaves population, history, generation,
\* envVariance, selectedIds, isProcessing, showCrossInfo and the calls unchanged.
C8_TooFewRejected ==
    [][Cardinality(selectedIds) < 2 =>
          /\ Len(calls') <= Len(calls)
          /\ isProcessing' => isProcessing
          /\ showCrossInfo' => showCrossInfo
          /\ BreedAttemptTooFew =>
                UNCHANGED <<population, history, generation, envVariance, selectedIds,
                            isProcessing, showCrossInfo, calls>>]_vars

C8_Witness ==
    /\ mounted
    /\ Cardinality(selectedIds) = 1
    /\ ~isProcessing
    /\ ~showCrossInfo
    /\ generation = 2

\* C9: whenever at least 2 ids are selected, the filtered parent list has at
\* least 2 members, and every call waiting to breed holds at least 2 parents.
C9_GuardImpliesTwoParents ==
    /\ Cardinality(selectedIds) >= 2 =>
          Len(FilterByIds(population, selectedIds)) >= 2
    /\ \A k \in DOMAIN calls :
          calls[k].stage = "scenario" => Len(calls[k].parents) >= 2

C9_Witness ==
    /\ generation = 2
    /\ \E k \in DOMAIN calls : calls[k].stage = "scenario" /\ Len(calls[k].parents) = 2

\* C10: in a step that invokes breedNextGeneration, every parent passed to it
\* is a member of the population of that moment.
C10_ParentsInPopulation ==
    [][\A k \in DOMAIN calls, r \in ScenarioResults, seed \in Seeds :
          ScenarioResolved(k, r, seed) =>
             Range(calls[k].parents) \subseteq Range(population)]_vars

\* C11: after initialization the population has exactly POPULATION_SIZE plants:
\* after createInitialPopulation, after every breedNextGeneration, and after
\* reset.
C11_PopulationSize == mounted => Len(population) = POPULATION_SIZE

C11_Witness ==
    /\ Len(population) = POPULATION_SIZE
    /\ \A i \in DOMAIN population : population[i].id[1] = 3
    /\ generation = 3
    /\ calls = <<>>

\* The generation number stamped on a plant's id.
StampOf(p) == p.id[1]

\* C15: in the step that commits a bred population (a step that appends to
\* history), every plant of it is stamped with g + 1, g being the generation the
\* advancement started from, and the stats entry appended in that step carries
\* the same number.
C15_StampMatchesStats ==
    [][Len(history') > Len(history) =>
          \A k \in DOMAIN calls, r \in ScenarioResults, seed \in Seeds :
             (ScenarioResolved(k, r, seed) /\ ~BreedRejects(calls[k].parents)) =>
                /\ \A p \in Range(population') : StampOf(p) = calls[k].generation + 1
                /\ history'[Len(history')].generation = calls[k].generation + 1]_vars

C15_Witness ==
    /\ generation = 3
    /\ Len(history) = 3
    /\ history[3].generation = 3
    /\ \A p \in Range(population) : StampOf(p) = 3
    /\ \E k \in DOMAIN calls : calls[k].stage = "analysis"

\* pop is a population the engine produces when it is given variance envVar.
PhenotypedWith(pop, envVar) ==
    /\ pop # <<>>
    /\ \E seed \in Seeds :
          pop = [i \in 1..POPULATION_SIZE |-> MakePlant(StampOf(pop[1]), i, envVar, seed)]

\* C16: the step that commits a bred population (a step that appends to
\* history) phenotypes it with the envImpact the scenario returned, and in every state after initialization (so in every
\* state where no advancement step is pending) the population is one phenotyped
\* with the current envVariance.
C16_OwnVariance ==
    /\ [](mounted => PhenotypedWith(population, envVariance))
    /\ [][Len(history') > Len(history) =>
             \A k \in DOMAIN calls, r \in ScenarioResults, seed \in Seeds :
                (ScenarioResolved(k, r, seed) /\ ~BreedRejects(calls[k].parents)) =>
                   PhenotypedWith(population', r.envImpact)]_vars

C16_Witness ==
    /\ generation = 2
    /\ envVariance = 30
    /\ envVariance # INITIAL_ENV_VARIANCE
    /\ PhenotypedWith(population, 30)
    /\ ~PhenotypedWith(population, INITIAL_ENV_VARIANCE)
    /\ calls = <<>>

\* p ranks strictly better than q under the criterion.
Better(p, q, trait, genomic) ==
    IF trait = "height"
    THEN TraitValue(p, trait, genomic) < TraitValue(q, trait, genomic)
    ELSE TraitValue(p, trait, genomic) > TraitValue(q, trait, genomic)

\* C18: autoSelectByTrait leaves as selection exactly
\* ceil(POPULATION_SIZE * selectionIntensity) plants of the current population,
\* and no unselected plant ranks strictly better than a selected one.
C18_AutoSelectPicksBest ==
    [][\A trait \in SelectionTraits :
          autoSelectByTrait(trait) =>
             /\ selectedIds' \subseteq PlantIds(population)
             /\ Cardinality(selectedIds') = SelectionCount(selectionIntensity)
             /\ \A p, q \in Range(population) :
                   (p.id \in selectedIds' /\ q.id \notin selectedIds') =>
                      ~Better(q, p, trait, genomicSelectionEnabled)]_vars

C18_Witness ==
    /\ mounted
    /\ generation = 2
    /\ ~genomicSelectionEnabled
    /\ selectionIntensity = 20
    /\ selectedIds = TopIds(population, "height", FALSE, SelectionCount(20))
    /\ Cardinality(selectedIds) = 1
    /\ \E p, q \in Range(population) :
          /\ p.id \in selectedIds
          /\ q.id \notin selectedIds
          /\ Better(p, q, "height", FALSE)
          /\ Better(q, p, "yield", FALSE)

\* C20: after initialization the generation counter equals the number of
\* history entries and the generation number of the last entry.
C20_GenerationMatchesHistory ==
    mounted =>
       /\ generation = Len(history)
       /\ history[Len(history)].generation = generation

\* ------------------------------------------------------------- fair runs
\* Each pending service call eventually returns or fails, a pending timeout
\* fires, and the mount effects run.
ScenarioCompletes ==
    \/ ScenarioFails
    \/ \E k \in DOMAIN calls, r \in ScenarioResults, seed \in Seeds : ScenarioResolved(k, r, seed)
AnalysisCompletes == AnalysisReturns \/ AnalysisFails

FairSpec ==
    /\ Spec
    /\ WF_vars(InitEffect)
    /\ WF_vars(ScenarioCompletes)
    /\ WF_vars(AnalysisCompletes)
    /\ WF_vars(TimerFires)

\* C17: every advanceGeneration that started ends with isProcessing false,
\* whether the service calls succeed or fail, and whenever isProcessing is false
\* and at least 2 ids are selected a further advancement can be started.
C17_AdvanceEventuallyEnds ==
    /\ isProcessing ~> ~isProcessing
    /\ [](( /\ mounted
            /\ ~isProcessing
            /\ Cardinality(selectedIds) >= 2
            /\ generation < MaxGeneration ) => ENABLED BreedClick)

C17_Witness ==
    /\ ~isProcessing
    /\ calls = <<>>
    /\ analysisMsg = MsgFallback
    /\ advanceOutcome = "fulfilled"
    /\ Cardinality(selectedIds) >= 2
    /\ generation = 2

\* C19: whenever the crossing overlay is shown it is eventually hidden again.
C19_OverlayEventuallyHidden == showCrossInfo ~> ~showCrossInfo

\* ------------------------------------------------- genomes and crossing
\* The engine's genome level, on its own: the population holds diploid
\* genomes, parents are chosen by clicks, and a breeding step crosses pairs of
\* the chosen parents.  Service calls, phenotypes and statistics are those of
\* Spec and play no part here; the engine's random draws are arguments.
NumLoci == 2                \* scaled down from the program's locus count
GenomeFieldSize == 2        \* plants per population at the genome level

Loci == 1..NumLoci
AllelePairs == [maternal : BOOLEAN, paternal : BOOLEAN]
Strands == {"maternal", "paternal"}

\* Dosage of one allele pair: (maternal ? 1 : 0) + (paternal ? 1 : 0).
Dosage(a) == (IF a.maternal THEN 1 ELSE 0) + (IF a.paternal THEN 1 ELSE 0)

\* A genome: the allele pairs and the dosage sequence derived from them.
MakeGenomeMaternalOnly(diploid) ==
    [diploid |-> diploid,
     loci    |-> [i \in DOMAIN diploid |-> IF diploid[i].maternal THEN 2 ELSE 0]]
MakeGenome(diploid) ==
    [diploid |-> diploid,
     loci    |-> [i \in DOMAIN diploid |-> Dosage(diploid[i])]]

\* cross(parentA, parentB): at each locus the maternal allele is the allele of
\* parent A on the strand pickA chose, the paternal allele that of parent B on
\* the strand pickB chose.
crossSelfed(parentA, parentB, pickA, pickB) ==
    MakeGenome([i \in Loci |->
        [maternal |-> parentA.genome.diploid[i][pickA[i]],
         paternal |-> parentA.genome.diploid[i][pickB[i]]]])
cross(parentA, parentB, pickA, pickB) ==
    MakeGenome([i \in Loci |->
        [maternal |-> parentA.genome.diploid[i][pickA[i]],
         paternal |-> parentB.genome.diploid[i][pickB[i]]]])

\* The draws of one breeding: per offspring an ordered pair of distinct parent
\* positions and one strand choice per locus and gamete.
Draws(n) ==
    [1..GenomeFieldSize ->
        { d \in [a : 1..n, b : 1..n, pickA : [Loci -> Strands], pickB : [Loci -> Strands]] :
             d.a # d.b }]

GenomePlant(gen, i, genome) == [id |-> <<gen, i>>, genome |-> genome]

\* Founders: every allele drawn independently.
FounderPopulations ==
    { [i \in 1..GenomeFieldSize |-> GenomePlant(1, i, MakeGenome(d[i]))] :
         d \in [1..GenomeFieldSize -> [Loci -> AllelePairs]] }

\* breedNextGeneration at the genome level.
breedGenomes(parents, gen, draws) ==
    [i \in 1..GenomeFieldSize |->
        GenomePlant(gen + 1, i,
                    cross(parents[draws[i].a], parents[draws[i].b],
                          draws[i].pickA, draws[i].pickB))]

\* GenomeVisualizer: the number of loci whose two alleles differ.
hetCountOfHomozygous(genome) ==
    Cardinality({ i \in DOMAIN genome.diploid :
                     genome.diploid[i].maternal = genome.diploid[i].paternal })
hetCount(genome) ==
    Cardinality({ i \in DOMAIN genome.diploid :
                     genome.diploid[i].maternal # genome.diploid[i].paternal })

\* ((hetCount / length) * 100).toFixed(1), in tenths of a percent.
hetPercent(genome) ==
    (2000 * hetCount(genome) + Len(genome.diploid)) \div (2 * Len(genome.diploid))

GenomeInit ==
    /\ generation = 1
    /\ population \in FounderPopulations
    /\ history = <<>>
    /\ selectedIds = {}
    /\ selectionIntensity = 20
    /\ envVariance = INITIAL_ENV_VARIANCE
    /\ genomicSelectionEnabled = FALSE
    /\ analysisMsg = MsgWelcome
    /\ scenario = "Normal Conditions"
    /\ lastSelectedPlant = NoPlant
    /\ isProcessing = FALSE
    /\ weather = "sunny"
    /\ showCrossInfo = FALSE
    /\ mounted = TRUE
    /\ calls = <<>>
    /\ timers = 0
    /\ advanceOutcome = "none"

\* One advancement with the chosen parents, the service calls left out.
GenomeBreed ==
    /\ ~TooFewParents(selectedIds)
    /\ generation < MaxGeneration
    /\ LET parents == FilterByIds(population, selectedIds)
       IN  \E draws \in Draws(Len(parents)) :
              population' = breedGenomes(parents, generation, draws)
    /\ generation' = generation + 1
    /\ selectedIds' = {}
    /\ lastSelectedPlant' = NoPlant
    /\ UNCHANGED <<history, selectionIntensity, envVariance, genomicSelectionEnabled,
                   analysisMsg, scenario, isProcessing, weather, showCrossInfo,
                   mounted, calls, timers, advanceOutcome>>

GenomeNext ==
    \/ \E id \in PlantIds(population) : handlePlantClick(id)
    \/ GenomeBreed

GenomeSpec == GenomeInit /\ [][GenomeNext]_vars

\* C12: for every plant of every population and every locus, the stored dosage
\* is (maternal ? 1 : 0) + (paternal ? 1 : 0) of the stored allele pair, and
\* lies in {0, 1, 2}.
C12_DosageMatchesDiploid ==
    \A p \in Range(population) : \A i \in Loci :
       /\ p.genome.loci[i] = (IF p.genome.diploid[i].maternal THEN 1 ELSE 0)
                             + (IF p.genome.diploid[i].paternal THEN 1 ELSE 0)
       /\ p.genome.loci[i] \in {0, 1, 2}

C12_Witness ==
    /\ generation = 3
    /\ \E p \in Range(population) :
          /\ p.genome.loci[1] = 1 /\ p.genome.diploid[1].paternal
          /\ p.genome.loci[2] = 2
    /\ \E p \in Range(population) : p.genome.loci[1] = 0

\* The allele values present at locus i among the plants of s.
AllelesAt(s, i) ==
    { s[j].genome.diploid[i].maternal : j \in DOMAIN s }
       \cup { s[j].genome.diploid[i].paternal : j \in DOMAIN s }

\* The two alleles of plant p at locus i.
AllelesOf(p, i) == {p.genome.diploid[i].maternal, p.genome.diploid[i].paternal}

\* C13: in every breeding step each offspring has two distinct selected parents
\* A and B such that at every locus its maternal allele is one of A's two
\* alleles and its paternal allele one of B's; so at every locus the allele
\* values of the new population are among those of the selected parents.
C13_AllelesFromParents ==
    [][generation' = generation + 1 =>
          LET parents == FilterByIds(population, selectedIds)
          IN  /\ \A c \in Range(population') :
                    \E A, B \in Range(parents) :
                       /\ A # B
                       /\ \A i \in Loci :
                             /\ c.genome.diploid[i].maternal \in AllelesOf(A, i)
                             /\ c.genome.diploid[i].paternal \in AllelesOf(B, i)
              /\ \A i \in Loci : AllelesAt(population', i) \subseteq AllelesAt(parents, i)]_vars

C13_Witness ==
    /\ generation = 3
    /\ AllelesAt(population, 1) = {FALSE}
    /\ AllelesAt(population, 2) = {TRUE, FALSE}
    /\ \E p \in Range(population) : p.genome.loci[2] = 2

\* C14: for every genome, of the population or in the viewer, the number of
\* heterozygous loci is between 0 and the locus count (the fraction is in
\* [0, 1], the percentage in [0, 100]), and it is 0 when the two alleles are
\* equal at every locus.
C14_HeterozygosityRange ==
    \A p \in Range(population) \cup ({lastSelectedPlant} \ {NoPlant}) :
       /\ 0 <= hetCount(p.genome)
       /\ hetCount(p.genome) <= Len(p.genome.diploid)
       /\ hetPercent(p.genome) \in 0..1000
       /\ (\A i \in Loci : p.genome.diploid[i].maternal = p.genome.diploid[i].paternal)
             => (hetCount(p.genome) = 0 /\ hetPercent(p.genome) = 0)

C14_Witness ==
    /\ generation = 2
    /\ lastSelectedPlant # NoPlant
    /\ \A i \in Loci : lastSelectedPlant.genome.diploid[i].maternal
                          = lastSelectedPlant.genome.diploid[i].paternal
    /\ hetCount(lastSelectedPlant.genome) = 0
    /\ \E p \in Range(population) : hetCount(p.genome) = NumLoci

\* ------------------------------------------- another initial variance
\* The program built with INITIAL_ENV_VARIANCE = 2.0 instead of 1.0: the same
\* handlers, the constant replaced where the code reads it.
CloudyInitialVariance == 20

CloudyNext ==
    \/ Events
    \/ resetSimulationWith(CloudyInitialVariance)

CloudySpec == InitWith(CloudyInitialVariance) /\ [][CloudyNext]_vars

\* C21: a resetSimulation step leaves generation 1, a history of exactly one
\* entry tagged 1 and computed from the new population, envVariance
\* INITIAL_ENV_VARIANCE, no selected id, no plant in the viewer and the scenario
\* "Normal Conditions", and it leaves selectionIntensity,
\* genomicSelectionEnabled and isProcessing unchanged.
C21_ResetRestoresF0 ==
    [][(analysisMsg' = MsgReset /\ resetSimulation) =>
          /\ generation' = 1
          /\ Len(history') = 1
          /\ history'[1].generation = 1
          /\ history'[1] = calculateStats(population', 1)
          /\ \A p \in Range(population') : StampOf(p) = 1
          /\ envVariance' = INITIAL_ENV_VARIANCE
          /\ selectedIds' = {}
          /\ lastSelectedPlant' = NoPlant
          /\ scenario' = "Normal Conditions"
          /\ UNCHANGED <<selectionIntensity, genomicSelectionEnabled, isProcessing>>]_vars

C21_Witness ==
    /\ analysisMsg = MsgReset
    /\ generation = 1
    /\ Len(history) = 1
    /\ envVariance = INITIAL_ENV_VARIANCE
    /\ selectedIds = {}
    /\ lastSelectedPlant = NoPlant
    /\ scenario = "Normal Conditions"
    /\ isProcessing
    /\ genomicSelectionEnabled
    /\ selectionIntensity = 50
    /\ \E k \in DOMAIN calls : calls[k].stage = "analysis" /\ calls[k].generation = 2

\* C22: after initialization the displayed weather is the threshold function
\* of envVariance, whatever the value of INITIAL_ENV_VARIANCE (here 2.0).
C22_WeatherMatchesVariance == mounted => weather = WeatherFor(envVariance)

\* C23: lastSelectedPlant is null or a member of the current population, and
\* every selected id is the id of a plant of the current population.
C23_SelectionInPopulation ==
    /\ lastSelectedPlant = NoPlant \/ lastSelectedPlant \in Range(population)
    /\ selectedIds \subseteq PlantIds(population)

C23_Witness ==
    /\ generation = 2
    /\ isProcessing
    /\ lastSelectedPlant # NoPlant
    /\ lastSelectedPlant \in Range(population)
    /\ StampOf(lastSelectedPlant) = 3
    /\ selectedIds = {lastSelectedPlant.id}

====
